---- MODULE Spec2Model ----
(***************************************************************************)
(* ResearchMemory (src/core/memory.py): the pattern log, the statistics    *)
(* aggregate, the in-memory result cache and the durable stores behind     *)
(* them, as one state machine.  One action per public method of the class; *)
(* the helpers (_classify_query, _learn_from_pattern, ...) are operators.  *)
(* DeepThinkWithMemory.research (src/core/deepthink_with_memory.py), the   *)
(* caller of the memory, is a sequence of steps over the same actions, and *)
(* a second instance over the same files can take turns with the first.    *)
(*                                                                         *)
(* Conventions                                                             *)
(*  - a query is the tuple of its characters, so that lower() and the `in` *)
(*    substring test are computed and not assumed;                         *)
(*  - a Python value that an operation returns is a tagged record          *)
(*    [type |-> ..., val |-> ...]; None is [type |-> "NoneType"];          *)
(*  - time.time() is the variable now, in whole seconds;                   *)
(*  - avg_response_time is an exact rational [num, den] in lowest terms    *)
(*    (the code holds a float; rounding error of the float is not          *)
(*    modelled, the comparison with 0 and the update formula are).         *)
(***************************************************************************)
EXTENDS Integers, Sequences, FiniteSets, TLC

VARIABLES
    patterns,       \* self.patterns: the in-memory pattern log
    stats,          \* self.stats: the statistics aggregate
    cache,          \* self.cache: digest -> cached_data, in memory
    disk_patterns,  \* .aget/memory/patterns.json
    disk_stats,     \* .aget/memory/stats.json
    disk_cache,     \* workspace/memory/cache/<digest>.json, digest -> data
    now,            \* time.time()
    last,           \* the last call made on the instance and what it returned
    put,            \* history: what this instance's cache_result calls stored
    router,         \* DeepThinkWithMemory.research: the call in progress
    other           \* a second instance over the same directories, waiting

vars == <<patterns, stats, cache, disk_patterns, disk_stats, disk_cache,
          now, last, put, router, other>>

----------------------------------------------------------------------------
(* Bounds of the model *)

MaxPatterns == 2    \* records remembered in Spec
SpecTicks == 1      \* clock steps in Spec
SpecHits == 1       \* cache hits counted in Spec
MaxLearn == 5       \* records remembered in LearnSpec
MaxAvg == 3         \* records remembered in AvgSpec
MaxTicks == 3       \* clock steps
MaxHits == 2        \* cache hits counted by one run
MaxFailLog == 5     \* records remembered in FailSpec
MaxPersist == 10    \* records remembered in PersistSpec
MaxSuggest == 4     \* records remembered in SuggestSpec
MaxInsight == 5     \* records remembered in InsightSpec
FailTicks == 1      \* clock steps in FailSpec
MaxRouter == 2      \* research methods awaited in RouterSpec
RouterHits == 2     \* cache hits counted in RouterSpec
RouterTicks == 1    \* clock steps in RouterSpec
MaxTwo == 5         \* records remembered by one instance in TwoSpec

(* Program constants *)

TTL == 3600             \* memory.py:184 and :196
SecondsPerHour == 3600  \* memory.py:270
LearnThreshold == 3     \* memory.py:132
SaveEvery == 5          \* memory.py:101
TopCombos == 3          \* memory.py:259
MilestoneEvery == 10    \* deepthink_with_memory.py:104

----------------------------------------------------------------------------
(* Python values *)

None == [type |-> "NoneType"]
Str(s) == [type |-> "str", val |-> s]
PyInt(n) == [type |-> "int", val |-> n]

(* json.load(json.dump(x)) on a result payload: a tuple comes back as a    *)
(* list, dicts with string keys, strings and numbers come back equal.      *)
json_roundtrip(x) ==
    IF x.type = "tuple" THEN [x EXCEPT !.type = "list"] ELSE x

(* Rationals in lowest terms *)
RECURSIVE GCD(_, _)
GCD(a, b) == IF b = 0 THEN a ELSE GCD(b, a % b)

Rat(n, d) ==
    IF n = 0 THEN [num |-> 0, den |-> 1]
    ELSE LET g == GCD(n, d) IN [num |-> n \div g, den |-> d \div g]

(* f"{x:.1f}": x = n/d rounded to tenths, ties to even; the value is the   *)
(* number of tenths.                                                       *)
format_1f(n, d) ==
    LET q == (10 * n) \div d
        r == (10 * n) % d
    IN  IF 2 * r < d THEN q
        ELSE IF 2 * r > d THEN q + 1
        ELSE IF q % 2 = 0 THEN q ELSE q + 1

RECURSIVE SumSeq(_)
SumSeq(s) == IF s = << >> THEN 0 ELSE Head(s) + SumSeq(Tail(s))

IsPrefix(s, t) == Len(s) <= Len(t) /\ SubSeq(t, 1, Len(s)) = s

----------------------------------------------------------------------------
(* str.lower() and the substring test *)

UpperChars == <<"A","B","C","D","E","F","G","H","I","J","K","L","M",
                "N","O","P","Q","R","S","T","U","V","W","X","Y","Z">>
LowerChars == <<"a","b","c","d","e","f","g","h","i","j","k","l","m",
                "n","o","p","q","r","s","t","u","v","w","x","y","z">>

lower_char(c) ==
    IF \E i \in 1..26 : UpperChars[i] = c
    THEN LowerChars[CHOOSE i \in 1..26 : UpperChars[i] = c]
    ELSE c

lower(s) == [i \in 1..Len(s) |-> lower_char(s[i])]

(* word in s *)
contains(s, word) ==
    \E i \in 0..(Len(s) - Len(word)) : SubSeq(s, i + 1, i + Len(word)) = word

----------------------------------------------------------------------------
(* _classify_query *)

KW_landscape     == <<"l","a","n","d","s","c","a","p","e">>
KW_comprehensive == <<"c","o","m","p","r","e","h","e","n","s","i","v","e">>
KW_analyze       == <<"a","n","a","l","y","z","e">>
KW_comparison    == <<"c","o","m","p","a","r","i","s","o","n">>
KW_how_to        == <<"h","o","w"," ","t","o">>
KW_implement     == <<"i","m","p","l","e","m","e","n","t">>
KW_code          == <<"c","o","d","e">>
KW_example       == <<"e","x","a","m","p","l","e">>
KW_what_is       == <<"w","h","a","t"," ","i","s">>
KW_define        == <<"d","e","f","i","n","e">>
KW_explain       == <<"e","x","p","l","a","i","n">>
KW_best          == <<"b","e","s","t">>
KW_recommend     == <<"r","e","c","o","m","m","e","n","d">>
KW_should        == <<"s","h","o","u","l","d">>

ComprehensiveWords == {KW_landscape, KW_comprehensive, KW_analyze, KW_comparison}
TechnicalWords     == {KW_how_to, KW_implement, KW_code, KW_example}
ConceptualWords    == {KW_what_is, KW_define, KW_explain}
RecommendWords     == {KW_best, KW_recommend, KW_should}

QueryTypes == {"comprehensive_analysis", "technical_implementation",
               "conceptual_explanation", "recommendation", "general_research"}

(* any(word in query_lower for word in words) *)
any_word_in(words, query_lower) == \E word \in words : contains(query_lower, word)

(* The classifier with its final else branch lost: it falls off the end.   *)
_classify_query_no_else(query) ==
    LET query_lower == lower(query) IN
    IF any_word_in(ComprehensiveWords, query_lower) THEN "comprehensive_analysis"
    ELSE IF any_word_in(TechnicalWords, query_lower) THEN "technical_implementation"
    ELSE IF any_word_in(ConceptualWords, query_lower) THEN "conceptual_explanation"
    ELSE IF any_word_in(RecommendWords, query_lower) THEN "recommendation"
    ELSE "None"

(* The classifier with the conceptual test ahead of the technical one *)
_classify_query_conceptual_first(query) ==
    LET query_lower == lower(query) IN
    IF any_word_in(ComprehensiveWords, query_lower) THEN "comprehensive_analysis"
    ELSE IF any_word_in(ConceptualWords, query_lower) THEN "conceptual_explanation"
    ELSE IF any_word_in(TechnicalWords, query_lower) THEN "technical_implementation"
    ELSE IF any_word_in(RecommendWords, query_lower) THEN "recommendation"
    ELSE "general_research"

_classify_query(query) ==
    LET query_lower == lower(query) IN
    IF any_word_in(ComprehensiveWords, query_lower) THEN "comprehensive_analysis"
    ELSE IF any_word_in(TechnicalWords, query_lower) THEN "technical_implementation"
    ELSE IF any_word_in(ConceptualWords, query_lower) THEN "conceptual_explanation"
    ELSE IF any_word_in(RecommendWords, query_lower) THEN "recommendation"
    ELSE "general_research"

----------------------------------------------------------------------------
(* Inputs *)

Q_what_is_x == <<"W","h","a","t"," ","i","s"," ","X","?">>
Q_how_to    == <<"H","o","w"," ","t","o"," ","c","o","d","e">>
Q_explain_x == <<"e","x","p","l","a","i","n"," ","X">>

Queries == {Q_what_is_x, Q_how_to}
Methods == {"openai_agents", "deep_research_api"}
Citations == {0}

Results == {[type |-> "dict", val |-> 1], [type |-> "tuple", val |-> 1]}
MaxAgeHours == {0, 1}
TickSteps == {1, TTL - 1}

----------------------------------------------------------------------------
(* Persistence primitives *)

NoFile == [exists |-> FALSE]
File(data) == [exists |-> TRUE, data |-> data]

EmptyStats ==
    [total_queries |-> 0, cache_hits |-> 0, patterns_learned |-> 0,
     avg_response_time |-> Rat(0, 1)]

EmptyMap == [h \in {} |-> None]

(* d[key] = value *)
SetItem(d, key, value) ==
    [h \in (DOMAIN d) \cup {key} |-> IF h = key THEN value ELSE d[h]]

(* Every field of a pattern record and of the statistics is a str, a bool  *)
(* or a number, which json.load(json.dump(.)) returns equal.               *)
_load_patterns(file) == IF file.exists THEN file.data ELSE << >>

(* the statistics loaded with the hit counter started again *)
_load_stats_reset_hits(file) ==
    IF file.exists THEN [file.data EXCEPT !.cache_hits = 0] ELSE EmptyStats

_load_stats(file) == IF file.exists THEN file.data ELSE EmptyStats

(* json.dump(self.patterns, f) over the whole file *)
_save_patterns(pats) == File(pats)

(* json.dump(self.stats, f) over the whole file *)
_save_stats(st) == File(st)

(* A file that open(path, 'w') has emptied and json.dump has not completed: *)
(* json.load of it raises.                                                  *)
Truncated == [exists |-> TRUE]

is_parsable(file) == "data" \in DOMAIN file

(* An exception that leaves the method; val is the exception class. *)
Error(name) == [type |-> "error", val |-> name]

(* The faults of the file system: none, or a failure of one document's     *)
(* write, either in open() or after it, in json.dump or at close.          *)
NoFault == [doc |-> "none", at |-> "none"]
FlushFaults ==
    {NoFault} \cup [doc : {"patterns", "stats"}, at : {"open", "write"}]
CacheFaults == {NoFault} \cup [doc : {"cache"}, at : {"open", "write"}]

fault_at(fault, doc) == IF fault.doc = doc THEN fault.at ELSE "none"

(* with open(...) as f: json.dump(...) inside a handler that drops the     *)
(* exception                                                               *)
write_json_suppressed(old, new, at) ==
    [file |-> IF at = "none" THEN new ELSE IF at = "open" THEN old ELSE Truncated,
     raised |-> None]

(* with open(path, 'w') as f: json.dump(data, f, indent=2).  No handler    *)
(* surrounds it: a failure of open() leaves the file as it was, a failure  *)
(* after open() leaves it truncated, and either one leaves the method.     *)
write_json(old, new, at) ==
    IF at = "none" THEN [file |-> new, raised |-> None]
    ELSE IF at = "open" THEN [file |-> old, raised |-> Error("OSError")]
    ELSE [file |-> Truncated, raised |-> Error("OSError")]

----------------------------------------------------------------------------
(* remember_query and _learn_from_pattern *)

make_pattern(query, method, success, response_time, citations_count, t) ==
    [query |-> query,
     query_type |-> _classify_query(query),
     method |-> method,
     success |-> success,
     response_time |-> response_time,
     citations_count |-> citations_count,
     timestamp |-> t]

(* self.patterns.insert(0, pattern) *)
insert_pattern_first(pats, pattern) == <<pattern>> \o pats

(* self.patterns.append(pattern) *)
append_pattern(pats, pattern) == Append(pats, pattern)

(* The running average of lines 87-94; n is total_queries after += 1.      *)
running_average(avg, n, response_time) ==
    IF avg.num = 0
    THEN Rat(response_time, 1)
    ELSE Rat(avg.num * (n - 1) + response_time * avg.den, avg.den * n)

(* The list comprehension without its test of the method *)
similar_for_learning_any_method(pats, query_type, method) ==
    SelectSeq(pats, LAMBDA p : p.query_type = query_type /\ p.success)

(* The list comprehension of _learn_from_pattern *)
similar_for_learning(pats, query_type, method) ==
    SelectSeq(pats, LAMBDA p :
        p.query_type = query_type /\ p.method = method /\ p.success)

(* len(similar_patterns) > 3 *)
enough_to_learn_gt(n) == n > LearnThreshold

(* len(similar_patterns) >= 3 *)
enough_to_learn(n) == n >= LearnThreshold

_learn_from_pattern(pats, st, pattern) ==
    IF enough_to_learn(
           Len(similar_for_learning(pats, pattern.query_type, pattern.method)))
    THEN [st EXCEPT !.patterns_learned = @ + 1]
    ELSE st

(* len(self.patterns) >= 5 *)
is_save_point_ge(n) == n >= SaveEvery

(* len(self.patterns) % 10 == 0 *)
is_save_point_every_ten(n) == n % (2 * SaveEvery) = 0

(* len(self.patterns) % 5 == 0 *)
is_save_point(n) == n % SaveEvery = 0

(* remember_query under a fault of the file system.  _save_patterns runs   *)
(* before _save_stats, so a failure of the first leaves the second undone. *)
RememberQueryIO(query, method, success, response_time, citations_count, fault) ==
    LET pattern == make_pattern(query, method, success, response_time,
                                citations_count, now)
        pats1 == append_pattern(patterns, pattern)
        n == stats.total_queries + 1
        st1 == [stats EXCEPT
                   !.total_queries = n,
                   !.avg_response_time =
                       running_average(stats.avg_response_time, n, response_time)]
        st2 == IF success THEN _learn_from_pattern(pats1, st1, pattern) ELSE st1
        save == is_save_point(Len(pats1))
        wp == write_json(disk_patterns, _save_patterns(pats1),
                         fault_at(fault, "patterns"))
        ws == write_json(disk_stats, _save_stats(st2), fault_at(fault, "stats"))
    IN  /\ fault # NoFault => save
        /\ patterns' = pats1
        /\ stats' = st2
        /\ disk_patterns' = IF save THEN wp.file ELSE disk_patterns
        /\ disk_stats' = IF save /\ wp.raised = None THEN ws.file ELSE disk_stats
        /\ last' = [op |-> "remember_query", query |-> query, method |-> method,
                    success |-> success, response_time |-> response_time,
                    fault |-> fault,
                    ret |-> IF ~save THEN None
                            ELSE IF wp.raised # None THEN wp.raised
                            ELSE ws.raised]
        /\ UNCHANGED <<cache, disk_cache, now, put>>

RememberQuery(query, method, success, response_time, citations_count) ==
    RememberQueryIO(query, method, success, response_time, citations_count,
                    NoFault)

----------------------------------------------------------------------------
(* suggest_method *)

(* the list comprehension of suggest_method without its test of success *)
similar_patterns_any_outcome(pats, query_type) ==
    SelectSeq(pats, LAMBDA p : p.query_type = query_type)

(* similar = [p for p in self.patterns                                     *)
(*            if p["query_type"] == query_type and p["success"]]           *)
similar_patterns(pats, query_type) ==
    SelectSeq(pats, LAMBDA p : p.query_type = query_type /\ p.success)

methods_of(similar) == {similar[i].method : i \in 1..Len(similar)}

(* method_scores[m]["count"] *)
method_count(similar, m) == Len(SelectSeq(similar, LAMBDA p : p.method = m))

(* The position of m among the keys of method_scores: a dict keeps its     *)
(* keys in the order of their first insertion.                             *)
first_seen(similar, m) ==
    CHOOSE i \in 1..Len(similar) :
        /\ similar[i].method = m
        /\ \A j \in 1..(i - 1) : similar[j].method # m

(* max(method_scores, key=count): the first key, in the dict's order, that *)
(* has the greatest count.                                                 *)
best_method(similar) ==
    CHOOSE m \in methods_of(similar) :
        \A m2 \in methods_of(similar) :
            \/ method_count(similar, m) > method_count(similar, m2)
            \/ /\ method_count(similar, m) = method_count(similar, m2)
               /\ first_seen(similar, m) <= first_seen(similar, m2)

(* confidence >= 0.5 *)
confident_half(count, total) == 10 * count >= 5 * total

(* confidence >= 0.6 *)
confident_ge(count, total) == 10 * count >= 6 * total

(* confidence > 0.6, where confidence = count / total.  The float quotient *)
(* exceeds the float 0.6 exactly when 10 * count > 6 * total for every     *)
(* total below 2^50.                                                       *)
confident(count, total) == 10 * count > 6 * total

suggest_method(pats, query) ==
    IF pats = << >> THEN None
    ELSE LET similar == similar_patterns(pats, _classify_query(query)) IN
         IF similar = << >> THEN None
         ELSE LET best == best_method(similar) IN
              IF confident(method_count(similar, best), Len(similar))
              THEN Str(best)
              ELSE None

SuggestMethod(query) ==
    /\ last' = [op |-> "suggest_method", query |-> query,
                ret |-> suggest_method(patterns, query)]
    /\ UNCHANGED <<patterns, stats, cache, disk_patterns, disk_stats,
                   disk_cache, now, put>>

----------------------------------------------------------------------------
(* The result cache *)

(* hashlib.md5(query.encode()).hexdigest(): a digest per query text; equal *)
(* texts give equal digests, and no two texts of the model collide.        *)
md5(query) == <<"md5">> \o query

(* cached_data, with the result stored as its JSON copy *)
cached_data_json(query, result, t) ==
    [query |-> query, result |-> json_roundtrip(result), timestamp |-> t,
     hits |-> 0]

(* cached_data with the store counted as a first use *)
cached_data_hit_one(query, result, t) ==
    [query |-> query, result |-> result, timestamp |-> t, hits |-> 1]

(* cached_data of cache_result *)
cached_data(query, result, t) ==
    [query |-> query, result |-> result, timestamp |-> t, hits |-> 0]

(* json.dump(cached_data, f) and the json.load that reads it back *)
json_file(data) == [data EXCEPT !.result = json_roundtrip(data.result)]

(* age <= 3600 *)
is_fresh_le(cached, t) == t - cached.timestamp <= TTL

(* age = time.time() - cached["timestamp"]; age < 3600 *)
is_fresh(cached, t) == t - cached.timestamp < TTL

(* stats after a hit that is also counted as a query *)
count_hit_as_query(st) ==
    [st EXCEPT !.cache_hits = @ + 1, !.total_queries = @ + 1]

(* self.stats["cache_hits"] += 1 *)
count_hit(st) == [st EXCEPT !.cache_hits = @ + 1]

(* A cache file whose write did not complete: json.load of it raises. *)
TruncatedEntry == [parsable |-> FALSE]

is_parsable_entry(data) == "timestamp" \in DOMAIN data

(* the entry left as it is on a hit *)
touch_entry_no_count(cached) == cached

(* cached["hits"] += 1 *)
touch_entry(cached) == [cached EXCEPT !.hits = @ + 1]

(* the entry loaded from the file, with the hit counted on it *)
hydrate_counted(cached) == [cached EXCEPT !.hits = @ + 1]

(* self.cache[query_hash] = cached, the dict json.load returned *)
hydrate(cached) == cached

(* raise KeyError(query_hash) *)
cache_miss_raises == Error("KeyError")

(* return None, the last line of get_cached_result *)
cache_miss == None

(* get_cached_result that writes the entry back to its file on a hit in   *)
(* memory                                                                 *)
GetCachedResult_write_through(query) ==
    LET query_hash == md5(query) IN
    IF query_hash \in DOMAIN cache /\ is_fresh(cache[query_hash], now)
    THEN /\ stats' = count_hit(stats)
         /\ cache' = [cache EXCEPT ![query_hash] = touch_entry(@)]
         /\ disk_cache' = SetItem(disk_cache, query_hash,
                                  json_file(touch_entry(cache[query_hash])))
         /\ last' = [op |-> "get_cached_result", query |-> query,
                     path |-> "memory", ret |-> cache[query_hash].result]
         /\ UNCHANGED <<patterns, disk_patterns, disk_stats, now, put>>
    ELSE IF query_hash \in DOMAIN disk_cache
            /\ is_fresh(disk_cache[query_hash], now)
    THEN /\ stats' = count_hit(stats)
         /\ cache' = SetItem(cache, query_hash, hydrate(disk_cache[query_hash]))
         /\ last' = [op |-> "get_cached_result", query |-> query,
                     path |-> "disk", ret |-> disk_cache[query_hash].result]
         /\ UNCHANGED <<patterns, disk_patterns, disk_stats, disk_cache, now, put>>
    ELSE /\ last' = [op |-> "get_cached_result", query |-> query,
                     path |-> "miss", ret |-> cache_miss]
         /\ UNCHANGED <<patterns, stats, cache, disk_patterns, disk_stats,
                        disk_cache, now, put>>

GetCachedResult(query) ==
    LET query_hash == md5(query) IN
    IF query_hash \in DOMAIN cache /\ is_fresh(cache[query_hash], now)
    THEN /\ stats' = count_hit(stats)
         /\ cache' = [cache EXCEPT ![query_hash] = touch_entry(@)]
         /\ last' = [op |-> "get_cached_result", query |-> query,
                     path |-> "memory", ret |-> cache[query_hash].result]
         /\ UNCHANGED <<patterns, disk_patterns, disk_stats, disk_cache, now, put>>
    ELSE IF query_hash \in DOMAIN disk_cache
            /\ ~is_parsable_entry(disk_cache[query_hash])
    THEN /\ last' = [op |-> "get_cached_result", query |-> query,
                     path |-> "disk", ret |-> Error("JSONDecodeError")]
         /\ UNCHANGED <<patterns, stats, cache, disk_patterns, disk_stats,
                        disk_cache, now, put>>
    ELSE IF query_hash \in DOMAIN disk_cache
            /\ is_fresh(disk_cache[query_hash], now)
    THEN /\ stats' = count_hit(stats)
         /\ cache' = SetItem(cache, query_hash, hydrate(disk_cache[query_hash]))
         /\ last' = [op |-> "get_cached_result", query |-> query,
                     path |-> "disk", ret |-> disk_cache[query_hash].result]
         /\ UNCHANGED <<patterns, disk_patterns, disk_stats, disk_cache, now, put>>
    ELSE /\ last' = [op |-> "get_cached_result", query |-> query,
                     path |-> "miss", ret |-> cache_miss]
         /\ UNCHANGED <<patterns, stats, cache, disk_patterns, disk_stats,
                        disk_cache, now, put>>

(* cache_result under a fault of the file system.  The in-memory map is   *)
(* assigned before the file is opened, so it holds the entry whether or   *)
(* not the write completes.                                               *)
CacheResultIO(query, result, fault) ==
    LET query_hash == md5(query)
        data == cached_data(query, result, now)
        at == fault_at(fault, "cache")
        w == write_json(disk_cache, SetItem(disk_cache, query_hash, json_file(data)),
                        at)
    IN  /\ cache' = SetItem(cache, query_hash, data)
        /\ disk_cache' = IF at = "write"
                         THEN SetItem(disk_cache, query_hash, TruncatedEntry)
                         ELSE w.file
        /\ put' = SetItem(put, query, [result |-> result, at |-> now])
        /\ last' = [op |-> "cache_result", query |-> query, result |-> result,
                    fault |-> fault, ret |-> w.raised]
        /\ UNCHANGED <<patterns, stats, disk_patterns, disk_stats, now>>

CacheResult(query, result) == CacheResultIO(query, result, NoFault)

(* age >= max_age_hours *)
is_old_ge(data, max_age_hours, t) ==
    t - data.timestamp >= max_age_hours * SecondsPerHour

(* age = (time.time() - data["timestamp"]) / 3600; age > max_age_hours *)
is_old(data, max_age_hours, t) ==
    t - data.timestamp > max_age_hours * SecondsPerHour

(* cleanup_volatile that also drops the swept queries from self.cache *)
CleanupVolatile_evicts_memory(max_age_hours) ==
    LET unlinked == {h \in DOMAIN disk_cache :
                        is_old(disk_cache[h], max_age_hours, now)}
    IN  /\ disk_cache' = [h \in (DOMAIN disk_cache) \ unlinked |-> disk_cache[h]]
        /\ cache' = [h \in (DOMAIN cache) \ unlinked |-> cache[h]]
        /\ last' = [op |-> "cleanup_volatile", max_age_hours |-> max_age_hours,
                    ret |-> PyInt(Cardinality(unlinked))]
        /\ UNCHANGED <<patterns, stats, disk_patterns, disk_stats, now, put>>

(* The loop visits the files in the order glob yields them.  json.load of *)
(* a truncated file raises and ends the loop: the old files visited       *)
(* before it are gone, the others stay, and no count is returned.         *)
CleanupVolatile(max_age_hours) ==
    LET parsable == {h \in DOMAIN disk_cache : is_parsable_entry(disk_cache[h])}
        unlinked == {h \in parsable : is_old(disk_cache[h], max_age_hours, now)}
    IN  IF parsable = DOMAIN disk_cache
        THEN /\ disk_cache' =
                    [h \in (DOMAIN disk_cache) \ unlinked |-> disk_cache[h]]
             /\ last' = [op |-> "cleanup_volatile",
                         max_age_hours |-> max_age_hours,
                         ret |-> PyInt(Cardinality(unlinked))]
             /\ UNCHANGED <<patterns, stats, cache, disk_patterns, disk_stats,
                            now, put>>
        ELSE \E visited \in SUBSET unlinked :
             /\ disk_cache' =
                    [h \in (DOMAIN disk_cache) \ visited |-> disk_cache[h]]
             /\ last' = [op |-> "cleanup_volatile",
                         max_age_hours |-> max_age_hours,
                         ret |-> Error("JSONDecodeError")]
             /\ UNCHANGED <<patterns, stats, cache, disk_patterns, disk_stats,
                            now, put>>

----------------------------------------------------------------------------
(* get_insights *)

(* query_types: counts over all records *)
query_types(pats) ==
    [qt \in {pats[i].query_type : i \in 1..Len(pats)} |->
        Len(SelectSeq(pats, LAMBDA p : p.query_type = qt))]

successes(pats) == SelectSeq(pats, LAMBDA p : p.success)

(* method_preferences[method] = 1 in place of the running count *)
method_preferences_no_sum(pats) ==
    [m \in methods_of(successes(pats)) |-> 1]

(* method_preferences: counts over the successful records *)
method_preferences(pats) ==
    [m \in methods_of(successes(pats)) |-> method_count(successes(pats), m)]

(* best_combos, keyed by (query_type, method) *)
combos_of(succ) == {<<succ[i].query_type, succ[i].method>> : i \in 1..Len(succ)}

combo_records(succ, c) ==
    SelectSeq(succ, LAMBDA p : p.query_type = c[1] /\ p.method = c[2])

combo_count(succ, c) == Len(combo_records(succ, c))

combo_first(succ, c) ==
    CHOOSE i \in 1..Len(succ) :
        /\ <<succ[i].query_type, succ[i].method>> = c
        /\ \A j \in 1..(i - 1) : <<succ[j].query_type, succ[j].method>> # c

(* The place of c in best_combos.items() taken without the sort *)
combo_rank_unsorted(succ, c) ==
    1 + Cardinality({c2 \in combos_of(succ) :
            combo_first(succ, c2) < combo_first(succ, c)})

(* The place of c in sorted(best_combos.items(), key=count, reverse=True): *)
(* the sort is stable, so equal counts keep the dict's order.              *)
combo_rank(succ, c) ==
    1 + Cardinality({c2 \in combos_of(succ) :
            \/ combo_count(succ, c2) > combo_count(succ, c)
            \/ /\ combo_count(succ, c2) = combo_count(succ, c)
               /\ combo_first(succ, c2) < combo_first(succ, c)})

combo_entry(succ, c) ==
    LET recs == combo_records(succ, c) IN
    [combo |-> c,
     count |-> Len(recs),
     avg_time |-> Rat(SumSeq([i \in 1..Len(recs) |-> recs[i].response_time]),
                      Len(recs))]

best_combinations(pats) ==
    LET succ == successes(pats)
        n == IF Cardinality(combos_of(succ)) < TopCombos
             THEN Cardinality(combos_of(succ)) ELSE TopCombos
    IN  [k \in 1..n |->
            combo_entry(succ, CHOOSE c \in combos_of(succ) : combo_rank(succ, c) = k)]

Max(a, b) == IF a >= b THEN a ELSE b

(* get_insights without the early return on an empty log *)
get_insights_always_full(pats, st) ==
    [type |-> "dict",
     total_patterns |-> Len(pats),
     patterns_learned |-> st.patterns_learned,
     cache_hit_rate |-> format_1f(100 * st.cache_hits, Max(1, st.total_queries)),
     query_types |-> query_types(pats),
     method_preferences |-> method_preferences(pats),
     best_combinations |-> best_combinations(pats),
     avg_response_time |->
         format_1f(st.avg_response_time.num, st.avg_response_time.den)]

get_insights(pats, st) ==
    IF pats = << >>
    THEN [type |-> "dict", message |-> "No patterns learned yet"]
    ELSE [type |-> "dict",
          total_patterns |-> Len(pats),
          patterns_learned |-> st.patterns_learned,
          cache_hit_rate |-> format_1f(100 * st.cache_hits, Max(1, st.total_queries)),
          query_types |-> query_types(pats),
          method_preferences |-> method_preferences(pats),
          best_combinations |-> best_combinations(pats),
          avg_response_time |->
              format_1f(st.avg_response_time.num, st.avg_response_time.den)]

GetInsights ==
    /\ last' = [op |-> "get_insights", ret |-> get_insights(patterns, stats)]
    /\ UNCHANGED <<patterns, stats, cache, disk_patterns, disk_stats,
                   disk_cache, now, put>>

----------------------------------------------------------------------------
(* DeepThinkWithMemory.research: one research transaction over the memory. *)
(* The method awaits the research method of its parent class in the        *)
(* middle, so it is a sequence of steps; router.pc is the position in it.  *)

(* the values of ResearchMethod that research maps a suggestion to *)
ResearchMethod(value) == [type |-> "ResearchMethod", val |-> value]

(* UnifiedResearchResult(query=, method_used=, result=, metadata=) *)
UnifiedResearchResult(query, method_used, result, metadata) ==
    [type |-> "UnifiedResearchResult", query |-> query,
     method_used |-> method_used, result |-> result, metadata |-> metadata]

(* the metadata of a result: result.metadata.get("citations_count", 0),   *)
(* the "error" key of the placeholder, and whether research has added its *)
(* own keys ("agent", "version", "elapsed_time", "memory_active")         *)
Metadata(citations_count, error) ==
    [citations_count |-> citations_count, error |-> error, memory_active |-> FALSE]

(* no call of research in progress, none made yet *)
IdleRouter ==
    [pc |-> "idle", query |-> << >>, method |-> None, start_time |-> 0,
     start_len |-> 0, result |-> None, success |-> FALSE, calls |-> << >>,
     ret |-> None]

(* "if cached_result:" -- the truth value of what get_cached_result        *)
(* returned: None and the empty containers are false.                      *)
truthy(x) ==
    IF x.type = "NoneType" THEN FALSE
    ELSE IF x.type \in {"dict", "tuple", "list", "int"} THEN x.val # 0
    ELSE TRUE

(* the suggestion as a ResearchMethod: the two names research knows *)
method_of_suggestion(suggested_method, method) ==
    IF suggested_method = Str("openai_agents")
    THEN ResearchMethod("openai_agents")
    ELSE IF suggested_method = Str("deep_research_api")
    THEN ResearchMethod("deep_research_api")
    ELSE method

(* success is set to True after the await whatever it did *)
research_success_ignored(raised) == TRUE

(* try: ...; success = True / except Exception: success = False *)
research_success(raised) == ~raised

(* cache_result is called after every remember_query *)
after_remember_always_cache(success) == "cache"

(* "if success: self.memory.cache_result(query, result)" *)
after_remember(success) == IF success THEN "cache" ELSE "return"

(* the result of the except branch *)
placeholder_result(query, e) ==
    UnifiedResearchResult(query, "failed", <<"Research failed: ", e>>,
                          Metadata(0, Str(e)))

(* len(self.memory.patterns) % 10 == 0 *)
is_milestone(n) == n % MilestoneEvery = 0

(* research up to its first return: the cache lookup, and the return of   *)
(* what it found when that is true.  An exception of the lookup leaves    *)
(* research.                                                              *)
research_lookup(query, method) ==
    /\ router.pc = "idle"
    /\ GetCachedResult(query)
    /\ router' =
         [pc |-> IF last'.ret.type = "error" \/ truthy(last'.ret) THEN "idle"
                 ELSE IF method = None THEN "suggest" ELSE "context",
          query |-> query, method |-> method, start_time |-> now,
          start_len |-> Len(patterns), result |-> None, success |-> FALSE,
          calls |-> <<"get_cached_result">>,
          ret |-> IF last'.ret.type = "error" \/ truthy(last'.ret)
                  THEN last'.ret ELSE None]

(* "if not method:" -- the suggestion replaces the missing argument *)
research_suggest ==
    /\ router.pc = "suggest"
    /\ SuggestMethod(router.query)
    /\ router' = [router EXCEPT
                     !.pc = "context",
                     !.method = method_of_suggestion(last'.ret, @),
                     !.calls = Append(@, "suggest_method")]

(* decision_context: the suggestion is asked for again, for the record *)
research_context ==
    /\ router.pc = "context"
    /\ SuggestMethod(router.query)
    /\ router' = [router EXCEPT
                     !.pc = "call",
                     !.calls = Append(@, "suggest_method")]

(* "result = await super().research(...)" inside try/except: the research *)
(* method takes some time and returns a result by one of the methods, or  *)
(* raises; the memory is not touched.                                      *)
super_research(raised, method_used, citations_count, elapsed) ==
    LET result == IF raised
                  THEN placeholder_result(router.query, "e")
                  ELSE UnifiedResearchResult(router.query, method_used, "text",
                                             Metadata(citations_count, None))
    IN  /\ router.pc = "call"
        /\ now' = now + elapsed
        /\ last' = [op |-> "super.research", query |-> router.query,
                    ret |-> IF raised THEN Error("Exception") ELSE result]
        /\ router' = [router EXCEPT
                         !.pc = "remember",
                         !.result = result,
                         !.success = research_success(raised),
                         !.calls = Append(@, "super.research")]
        /\ UNCHANGED <<patterns, stats, cache, disk_patterns, disk_stats,
                       disk_cache, put>>

(* elapsed = time.time() - start_time; self.memory.remember_query(...) *)
research_remember ==
    /\ router.pc = "remember"
    /\ RememberQuery(router.query, router.result.method_used, router.success,
                     now - router.start_time,
                     router.result.metadata.citations_count)
    /\ router' = [router EXCEPT
                     !.pc = after_remember(router.success),
                     !.calls = Append(@, "remember_query")]

(* self.memory.cache_result(query, result) *)
research_cache ==
    /\ router.pc = "cache"
    /\ CacheResult(router.query, router.result)
    /\ router' = [router EXCEPT
                     !.pc = "return",
                     !.calls = Append(@, "cache_result")]

(* The rest of research: its keys are set in result.metadata, and the     *)
(* result is returned.  A cached result is the same object as the entry   *)
(* of self.cache, which so shows the keys too; the file does not.         *)
research_return ==
    LET query_hash == md5(router.query)
        result == [router.result EXCEPT !.metadata.memory_active = TRUE]
    IN  /\ router.pc = "return"
        /\ cache' = IF router.success /\ query_hash \in DOMAIN cache
                    THEN [cache EXCEPT ![query_hash].result = result]
                    ELSE cache
        /\ last' = [op |-> "research", query |-> router.query,
                    milestone |-> is_milestone(Len(patterns)), ret |-> result]
        /\ router' = [router EXCEPT !.pc = "idle", !.result = result,
                                    !.ret = result]
        /\ UNCHANGED <<patterns, stats, disk_patterns, disk_stats, disk_cache,
                       now, put>>

----------------------------------------------------------------------------
(* Construction, and the clock *)

(* json.load(f) of a file that exists and is not a JSON document *)
load_raises(file) == file.exists /\ ~is_parsable(file)

(* ResearchMemory() with the cache dict shared by all instances *)
NewResearchMemory_shared_cache ==
    /\ patterns' = _load_patterns(disk_patterns)
    /\ stats' = _load_stats(disk_stats)
    /\ put' = EmptyMap
    /\ last' = [op |-> "__init__", ret |-> None]
    /\ UNCHANGED <<cache, disk_patterns, disk_stats, disk_cache, now>>

(* ResearchMemory(): a new instance over the same directories.  When a    *)
(* load raises, the constructor raises and there is no instance: the      *)
(* fields are shown empty and HasInstance is false until a constructor    *)
(* succeeds.                                                              *)
NewResearchMemory ==
    LET raises == load_raises(disk_patterns) \/ load_raises(disk_stats) IN
    /\ patterns' = IF raises THEN << >> ELSE _load_patterns(disk_patterns)
    /\ cache' = EmptyMap
    /\ stats' = IF raises THEN EmptyStats ELSE _load_stats(disk_stats)
    /\ put' = EmptyMap
    /\ last' = [op |-> "__init__",
                ret |-> IF raises THEN Error("JSONDecodeError") ELSE None]
    /\ UNCHANGED <<disk_patterns, disk_stats, disk_cache, now>>

HasInstance == ~(last.op = "__init__" /\ last.ret # None)

(* The fields of an instance just constructed over empty directories.     *)
(* ResearchMemory() is called by DeepThinkWithMemory.__init__ and again,  *)
(* in a process of its own, by every query of the command line; the       *)
(* instances share the files and nothing else.                            *)
NewInstance(id) ==
    [id |-> id, patterns |-> << >>, stats |-> EmptyStats, cache |-> EmptyMap,
     put |-> EmptyMap]

(* the instance whose fields are patterns, stats, cache *)
running == 3 - other.id

(* The running instance is left between two of its calls and the other    *)
(* one goes on: the two processes take turns call by call.                *)
Switch ==
    /\ patterns' = other.patterns
    /\ stats' = other.stats
    /\ cache' = other.cache
    /\ put' = other.put
    /\ other' = [id |-> running, patterns |-> patterns, stats |-> stats,
                 cache |-> cache, put |-> put]
    /\ last' = [op |-> "switch", ret |-> None]
    /\ UNCHANGED <<disk_patterns, disk_stats, disk_cache, now, router>>

(* time passes between two calls *)
Tick(d) ==
    /\ now' = now + d
    /\ last' = [op |-> "tick", ret |-> None]
    /\ UNCHANGED <<patterns, stats, cache, disk_patterns, disk_stats,
                   disk_cache, put>>

(* The number of clock steps taken so far: now = a * 1 + b * (TTL - 1). *)
TicksTaken == (now \div (TTL - 1)) + (now % (TTL - 1))

(* A first instance over empty directories *)
Init ==
    /\ patterns = << >>
    /\ stats = EmptyStats
    /\ cache = EmptyMap
    /\ disk_patterns = NoFile
    /\ disk_stats = NoFile
    /\ disk_cache = EmptyMap
    /\ now = 0
    /\ last = [op |-> "__init__", ret |-> None]
    /\ put = EmptyMap
    /\ router = IdleRouter
    /\ other = NewInstance(2)

----------------------------------------------------------------------------
(* Spec: every operation of one instance, the clock and the restart, on    *)
(* the smallest inputs; LearnSpec and CacheSpec widen the inputs of the    *)
(* pattern log and of the cache.                                           *)

SpecQueries == {Q_what_is_x}
SpecMethods == {"openai_agents"}
SpecResults == {[type |-> "dict", val |-> 1]}
SpecRespTimes == {1}

Next ==
    \/ /\ UNCHANGED <<router, other>>
       /\ Len(patterns) < MaxPatterns
       /\ \E query \in SpecQueries, method \in SpecMethods, success \in BOOLEAN,
             response_time \in SpecRespTimes, citations_count \in Citations :
             RememberQuery(query, method, success, response_time, citations_count)
    \/ /\ UNCHANGED <<router, other>>
       /\ \E query \in SpecQueries : SuggestMethod(query)
    \/ /\ UNCHANGED <<router, other>>
       /\ stats.cache_hits < SpecHits
       /\ \E query \in SpecQueries : GetCachedResult(query)
    \/ /\ UNCHANGED <<router, other>>
       /\ \E query \in SpecQueries, result \in SpecResults : CacheResult(query, result)
    \/ /\ UNCHANGED <<router, other>>
       /\ GetInsights
    \/ /\ UNCHANGED <<router, other>>
       /\ \E max_age_hours \in MaxAgeHours : CleanupVolatile(max_age_hours)
    \/ /\ UNCHANGED <<router, other>>
       /\ NewResearchMemory
    \/ /\ UNCHANGED <<router, other>>
       /\ TicksTaken < SpecTicks
       /\ \E d \in TickSteps : Tick(d)

Spec == Init /\ [][Next]_vars

----------------------------------------------------------------------------
(* LearnSpec: the pattern log under two query types, two methods and both  *)
(* outcomes, long enough for five successful records of one type.          *)

LearnQueries == {Q_what_is_x, Q_explain_x, Q_how_to}
LearnRespTimes == {1}

(* (query, method, success) of the calls made *)
LearnInputs ==
    {<<Q_what_is_x, "openai_agents", TRUE>>,
     <<Q_what_is_x, "deep_research_api", TRUE>>,
     <<Q_what_is_x, "openai_agents", FALSE>>,
     <<Q_explain_x, "openai_agents", TRUE>>,
     <<Q_how_to, "deep_research_api", TRUE>>}

LearnNext ==
    \/ /\ UNCHANGED <<router, other>>
       /\ Len(patterns) < MaxLearn
       /\ \E input \in LearnInputs, response_time \in LearnRespTimes,
             citations_count \in Citations :
             RememberQuery(input[1], input[2], input[3], response_time,
                           citations_count)
    \/ /\ UNCHANGED <<router, other>>
       /\ \E query \in LearnQueries : SuggestMethod(query)
    \/ /\ UNCHANGED <<router, other>>
       /\ GetInsights
    \/ /\ UNCHANGED <<router, other>>
       /\ NewResearchMemory

LearnSpec == Init /\ [][LearnNext]_vars

----------------------------------------------------------------------------
(* SuggestSpec: short logs of two query types, two methods and both        *)
(* outcomes, with a suggestion asked after every record.                   *)

(* (query, method, success) of the calls made *)
SuggestInputs ==
    {<<Q_what_is_x, "openai_agents", TRUE>>,
     <<Q_what_is_x, "deep_research_api", TRUE>>,
     <<Q_what_is_x, "deep_research_api", FALSE>>,
     <<Q_what_is_x, "openai_agents", FALSE>>,
     <<Q_how_to, "openai_agents", TRUE>>}

SuggestNext ==
    \/ /\ UNCHANGED <<router, other>>
       /\ Len(patterns) < MaxSuggest
       /\ \E input \in SuggestInputs, response_time \in SpecRespTimes,
             citations_count \in Citations :
             RememberQuery(input[1], input[2], input[3], response_time,
                           citations_count)
    \/ /\ UNCHANGED <<router, other>>
       /\ \E query \in Queries : SuggestMethod(query)

SuggestSpec == Init /\ [][SuggestNext]_vars

----------------------------------------------------------------------------
(* InsightSpec: logs of two query types and two methods, four pairs in     *)
(* all, with a failed record, and the report asked after every record.     *)

(* (query, method, success) of the calls made *)
InsightInputs ==
    {<<Q_what_is_x, "openai_agents", TRUE>>,
     <<Q_what_is_x, "deep_research_api", TRUE>>,
     <<Q_how_to, "openai_agents", TRUE>>,
     <<Q_how_to, "deep_research_api", TRUE>>,
     <<Q_how_to, "deep_research_api", FALSE>>}

InsightNext ==
    \/ /\ UNCHANGED <<router, other>>
       /\ Len(patterns) < MaxInsight
       /\ \E input \in InsightInputs, response_time \in SpecRespTimes,
             citations_count \in Citations :
             RememberQuery(input[1], input[2], input[3], response_time,
                           citations_count)
    \/ /\ UNCHANGED <<router, other>>
       /\ GetInsights

InsightSpec == Init /\ [][InsightNext]_vars

----------------------------------------------------------------------------
(* AvgSpec: the running average under response times that include 0 *)

AvgRespTimes == {0, 1, 2}

AvgNext ==
    \/ /\ UNCHANGED <<router, other>>
       /\ Len(patterns) < MaxAvg
       /\ \E query \in SpecQueries, method \in SpecMethods, success \in BOOLEAN,
             response_time \in AvgRespTimes, citations_count \in Citations :
             RememberQuery(query, method, success, response_time, citations_count)
    \/ /\ UNCHANGED <<router, other>>
       /\ GetInsights

AvgSpec == Init /\ [][AvgNext]_vars

----------------------------------------------------------------------------
(* CacheSpec: the result cache under two queries, two payloads, the clock, *)
(* the sweep and the restart.                                              *)

CacheNext ==
    \/ /\ UNCHANGED <<router, other>>
       /\ stats.cache_hits < MaxHits
       /\ \E query \in Queries : GetCachedResult(query)
    \/ /\ UNCHANGED <<router, other>>
       /\ \E query \in Queries, result \in Results : CacheResult(query, result)
    \/ /\ UNCHANGED <<router, other>>
       /\ \E max_age_hours \in MaxAgeHours : CleanupVolatile(max_age_hours)
    \/ /\ UNCHANGED <<router, other>>
       /\ NewResearchMemory
    \/ /\ UNCHANGED <<router, other>>
       /\ TicksTaken < MaxTicks
       /\ \E d \in TickSteps : Tick(d)

CacheSpec == Init /\ [][CacheNext]_vars

----------------------------------------------------------------------------
(* PersistSpec: one query remembered, with both outcomes, past the second  *)
(* save point, with cache hits counted in between and restarts.            *)

PersistNext ==
    \/ /\ UNCHANGED <<router, other>>
       /\ Len(patterns) < MaxPersist
       /\ \E query \in SpecQueries, method \in SpecMethods, success \in BOOLEAN,
             response_time \in SpecRespTimes, citations_count \in Citations :
             RememberQuery(query, method, success, response_time, citations_count)
    \/ /\ UNCHANGED <<router, other>>
       /\ stats.cache_hits < SpecHits
       /\ \E query \in SpecQueries : GetCachedResult(query)
    \/ /\ UNCHANGED <<router, other>>
       /\ \E query \in SpecQueries, result \in SpecResults : CacheResult(query, result)
    \/ /\ UNCHANGED <<router, other>>
       /\ NewResearchMemory

PersistSpec == Init /\ [][PersistNext]_vars

----------------------------------------------------------------------------
(* FailSpec: one query, remembered up to the first save point and cached,  *)
(* a clock step of one time-to-live, and a file system whose writes can    *)
(* fail.                                                                   *)

FailNext ==
    \/ /\ UNCHANGED <<router, other>>
       /\ HasInstance
       /\ Len(patterns) < MaxFailLog
       /\ \E query \in SpecQueries, method \in SpecMethods,
             response_time \in SpecRespTimes, citations_count \in Citations,
             fault \in FlushFaults :
             RememberQueryIO(query, method, TRUE, response_time,
                             citations_count, fault)
    \/ /\ UNCHANGED <<router, other>>
       /\ HasInstance
       /\ \E query \in Queries : SuggestMethod(query)
    \/ /\ UNCHANGED <<router, other>>
       /\ HasInstance
       /\ stats.cache_hits < SpecHits
       /\ \E query \in SpecQueries : GetCachedResult(query)
    \/ /\ UNCHANGED <<router, other>>
       /\ HasInstance
       /\ \E query \in SpecQueries, result \in SpecResults, fault \in CacheFaults :
             CacheResultIO(query, result, fault)
    \/ /\ UNCHANGED <<router, other>>
       /\ HasInstance
       /\ \E max_age_hours \in MaxAgeHours : CleanupVolatile(max_age_hours)
    \/ /\ UNCHANGED <<router, other>>
       /\ NewResearchMemory
    \/ /\ UNCHANGED <<router, other>>
       /\ HasInstance
       /\ now < FailTicks * TTL
       /\ Tick(TTL)

FailSpec == Init /\ [][FailNext]_vars

----------------------------------------------------------------------------
(* ClassifySpec: the classifier on every text made of at most two of the   *)
(* words below, called on an empty log and after a first record.           *)

ProbeWords ==
    {<<"L","a","n","d","s","c","a","p","e">>, <<"h","o","w"," ","t","o">>,
     <<"E","X","P","L","A","I","N">>, <<"b","e","s","t">>,
     <<"c","o","d","e">>, <<"x">>, <<" ">>}

ProbeQueries ==
    {<< >>} \cup ProbeWords \cup {a \o b : a \in ProbeWords, b \in ProbeWords}

Classify(query) ==
    /\ last' = [op |-> "_classify_query", query |-> query,
                ret |-> Str(_classify_query(query))]
    /\ UNCHANGED <<patterns, stats, cache, disk_patterns, disk_stats,
                   disk_cache, now, put>>

ClassifyNext ==
    \/ /\ UNCHANGED <<router, other>>
       /\ \E query \in ProbeQueries : Classify(query)
    \/ /\ UNCHANGED <<router, other>>
       /\ patterns = << >>
       /\ \E query \in ProbeQueries, method \in SpecMethods,
             response_time \in SpecRespTimes, citations_count \in Citations :
             RememberQuery(query, method, TRUE, response_time, citations_count)

ClassifySpec == Init /\ [][ClassifyNext]_vars

----------------------------------------------------------------------------
(* RouterSpec: the memory as DeepThinkWithMemory.research drives it, one   *)
(* call at a time, with and without a method argument, with research       *)
(* methods that return and that raise, across the expiry of the cache and  *)
(* new instances.  The files are written without faults.                   *)

RouterQueries == Queries
RouterMethods == {None, ResearchMethod("deep_research_api")}
RouterElapsed == {1}

(* The number of research methods awaited so far: each takes one second   *)
(* and the clock steps by the hour.                                       *)
ResearchCalls == now % TTL

RouterNext ==
    \/ /\ UNCHANGED other
       /\ ResearchCalls < MaxRouter
       /\ stats.cache_hits < RouterHits
       /\ \E query \in RouterQueries, method \in RouterMethods :
             research_lookup(query, method)
    \/ /\ UNCHANGED other
       /\ research_suggest
    \/ /\ UNCHANGED other
       /\ research_context
    \/ /\ UNCHANGED other
       /\ \E raised \in BOOLEAN, method_used \in Methods,
             citations_count \in Citations, elapsed \in RouterElapsed :
             super_research(raised, method_used, citations_count, elapsed)
    \/ /\ UNCHANGED other
       /\ research_remember
    \/ /\ UNCHANGED other
       /\ research_cache
    \/ /\ UNCHANGED other
       /\ research_return
    \/ /\ router.pc = "idle"
       /\ NewResearchMemory
       /\ UNCHANGED <<router, other>>
    \/ /\ router.pc = "idle"
       /\ now \div TTL < RouterTicks
       /\ Tick(TTL)
       /\ UNCHANGED <<router, other>>

RouterSpec == Init /\ [][RouterNext]_vars

----------------------------------------------------------------------------
(* TwoSpec: two instances over the same directories, each remembering      *)
(* queries up to its first save point, taking turns call by call, and      *)
(* either replaced by a new instance at any time.                          *)

TwoNext ==
    \/ /\ UNCHANGED <<router, other>>
       /\ Len(patterns) < MaxTwo
       /\ \E query \in SpecQueries, method \in Methods,
             response_time \in SpecRespTimes, citations_count \in Citations :
             RememberQuery(query, method, TRUE, response_time, citations_count)
    \/ /\ UNCHANGED <<router, other>>
       /\ \E query \in SpecQueries : SuggestMethod(query)
    \/ /\ UNCHANGED <<router, other>>
       /\ NewResearchMemory
    \/ Switch

TwoSpec == Init /\ [][TwoNext]_vars

----------------------------------------------------------------------------
(* Claims.  A call is recognised in the state it leaves by last.op; every  *)
(* action, the clock's included, overwrites last, so a state with          *)
(* last.op = "f" is the state right after a call of f, at the time of the  *)
(* call.                                                                   *)

Age(data) == now - data.timestamp

(* C1 - cache round trip (CacheSpec): a get_cached_result(q) made less     *)
(* than 3600 s after this instance's latest cache_result(q, r) returns     *)
(* exactly r.                                                              *)
C1_RoundTrip ==
    (/\ last.op = "get_cached_result"
     /\ last.query \in DOMAIN put
     /\ now - put[last.query].at < 3600)
    => last.ret = put[last.query].result

(* The round trip of a tuple, 3599 s later, after the sweep has removed    *)
(* the durable copy.                                                       *)
C1_Witness ==
    /\ last.op = "get_cached_result"
    /\ last.query \in DOMAIN put
    /\ put[last.query].result.type = "tuple"
    /\ now - put[last.query].at = 3599
    /\ md5(last.query) \notin DOMAIN disk_cache
    /\ last.ret = put[last.query].result

(* C2 - TTL boundary (CacheSpec): get_cached_result returns a result only  *)
(* from an entry younger than 3600 s, and returns nothing only when        *)
(* neither the in-memory map nor the durable store holds an entry of the   *)
(* query younger than 3600 s.                                              *)
C2_TTLBoundary ==
    last.op = "get_cached_result" =>
        LET h == md5(last.query) IN
        /\ last.ret # None =>
              /\ h \in DOMAIN cache
              /\ cache[h].result = last.ret
              /\ Age(cache[h]) < 3600
        /\ last.ret = None =>
              /\ ~(h \in DOMAIN cache /\ Age(cache[h]) < 3600)
              /\ ~(h \in DOMAIN disk_cache /\ Age(disk_cache[h]) < 3600)

(* An entry aged 3599 s is returned from the durable store alone. *)
C2_Witness ==
    /\ last.op = "get_cached_result"
    /\ last.path = "disk"
    /\ last.ret # None
    /\ Age(cache[md5(last.query)]) = 3599

(* Successful records of a query type, and of one method among them *)
SuccessesOfType(T) ==
    {i \in 1..Len(patterns) : patterns[i].query_type = T /\ patterns[i].success}

SuccessesOfTypeMethod(T, M) ==
    {i \in SuccessesOfType(T) : patterns[i].method = M}

(* C3 - suggestion confidence gate (LearnSpec): suggest(q) returns m       *)
(* exactly when m has the highest count among the successful records of    *)
(* type classify(q) and that count is more than 0.6 of their number;       *)
(* otherwise it returns nothing.                                           *)
C3_ConfidenceGate ==
    last.op = "suggest_method" =>
        LET T == _classify_query(last.query)
            total == Cardinality(SuccessesOfType(T))
            count(m) == Cardinality(SuccessesOfTypeMethod(T, m))
            chosen(m) ==
                /\ total > 0
                /\ \A m2 \in Methods : count(m2) <= count(m)
                /\ 10 * count(m) > 6 * total
        IN  /\ \A m \in Methods : (last.ret = Str(m)) <=> chosen(m)
            /\ (last.ret = None) <=> ~ \E m \in Methods : chosen(m)

(* 3 of 5 successful records: confidence is exactly 0.6, nothing returned *)
C3_Witness ==
    /\ last.op = "suggest_method"
    /\ last.ret = None
    /\ Cardinality(SuccessesOfType(_classify_query(last.query))) = 5
    /\ \E m \in Methods :
          Cardinality(SuccessesOfTypeMethod(_classify_query(last.query), m)) = 3

(* C4 - running average (AvgSpec): after every remember call               *)
(* avg_response_time is the arithmetic mean of all recorded response       *)
(* times.                                                                  *)
C4_RunningAverage ==
    Len(patterns) > 0 =>
        stats.avg_response_time.num * Len(patterns)
            = stats.avg_response_time.den
                * SumSeq([i \in 1..Len(patterns) |-> patterns[i].response_time])

(* C5 - learner threshold (LearnSpec): no remember call lowers             *)
(* patterns_learned, and the successful remember call that brings the      *)
(* successful records of its (query_type, method) to three raises it by    *)
(* at least 1.                                                             *)
C5_LearnerThreshold ==
    [][last'.op = "remember_query" =>
          /\ stats'.patterns_learned >= stats.patterns_learned
          /\ (/\ last'.success
              /\ Cardinality({i \in 1..Len(patterns') :
                    /\ patterns'[i].query_type = _classify_query(last'.query)
                    /\ patterns'[i].method = last'.method
                    /\ patterns'[i].success}) = 3)
             => stats'.patterns_learned >= stats.patterns_learned + 1]_vars

(* The third success of a pair, as the fifth record of the log *)
C5_Witness ==
    /\ last.op = "remember_query"
    /\ last.success
    /\ Len(patterns) = 5
    /\ Cardinality(SuccessesOfTypeMethod(_classify_query(last.query),
                                         last.method)) = 3
    /\ stats.patterns_learned = 1

(* C6 - cleanup (CacheSpec): a cleanup(max_age_hours) call removes from    *)
(* the durable cache exactly the entries older than max_age_hours hours,   *)
(* leaves the others as they were and returns the number removed.          *)
C6_Cleanup ==
    [][last'.op = "cleanup_volatile" =>
          LET old == {h \in DOMAIN disk_cache :
                         now - disk_cache[h].timestamp
                             > last'.max_age_hours * 3600}
          IN  /\ DOMAIN disk_cache' = (DOMAIN disk_cache) \ old
              /\ \A h \in DOMAIN disk_cache' : disk_cache'[h] = disk_cache[h]
              /\ last'.ret = PyInt(Cardinality(old))]_vars

(* One entry swept at the age of 3601 s, a younger one kept *)
C6_Witness ==
    /\ last.op = "cleanup_volatile"
    /\ last.max_age_hours = 1
    /\ last.ret = PyInt(1)
    /\ \E h \in DOMAIN disk_cache : Age(disk_cache[h]) = 3600
    /\ \E h \in DOMAIN cache : Age(cache[h]) = 3601

(* C7 - classification is total and does not depend on the memory          *)
(* (ClassifySpec): every call returns one of the five query types, every   *)
(* record holds one of them, and a call returns the type recorded earlier  *)
(* for the same text.                                                      *)
C7_ClassifyTotal ==
    /\ last.op = "_classify_query" => last.ret.val \in QueryTypes
    /\ \A i \in 1..Len(patterns) :
          /\ patterns[i].query_type \in QueryTypes
          /\ (last.op = "_classify_query" /\ last.query = patterns[i].query)
                => last.ret.val = patterns[i].query_type

(* A text without any keyword, classified after it was recorded *)
C7_Witness ==
    /\ last.op = "_classify_query"
    /\ Len(patterns) = 1
    /\ patterns[1].query = last.query
    /\ last.ret.val = "general_research"
    /\ Len(last.query) = 2

(* Every record is successful, of the type and the method of the first *)
SinglePattern ==
    /\ Len(patterns) >= 1
    /\ \A i \in 1..Len(patterns) :
          /\ patterns[i].success
          /\ patterns[i].query_type = patterns[1].query_type
          /\ patterns[i].method = patterns[1].method

(* C8 - single-pattern learning (LearnSpec): when all n >= 1 records are   *)
(* successful, of one type T and one method A, suggest on a query of type  *)
(* T returns A and get_insights reports method_preferences[A] = n.         *)
C8_SinglePattern ==
    SinglePattern =>
        /\ (/\ last.op = "suggest_method"
            /\ _classify_query(last.query) = patterns[1].query_type)
              => last.ret = Str(patterns[1].method)
        /\ last.op = "get_insights" =>
              /\ DOMAIN last.ret.method_preferences = {patterns[1].method}
              /\ last.ret.method_preferences[patterns[1].method] = Len(patterns)

(* Five conceptual records of one method, then suggest("What is X?") *)
C8_Witness ==
    /\ SinglePattern
    /\ Len(patterns) = 5
    /\ patterns[1].query_type = "conceptual_explanation"
    /\ last.op = "suggest_method"
    /\ last.query = Q_what_is_x
    /\ last.ret = Str("openai_agents")

(* C9 - append-only pattern log (Spec): every call on an instance leaves   *)
(* the log it found as a prefix of the log it leaves.                      *)
C9_AppendOnly ==
    [][last'.op # "__init__" => IsPrefix(patterns, patterns')]_vars

(* A second record appended behind a different first one *)
C9_Witness ==
    /\ last.op = "remember_query"
    /\ Len(patterns) = 2
    /\ patterns[1] # patterns[2]

(* C10 - statistics frame (Spec): suggest, cache_result, get_insights and  *)
(* cleanup leave the statistics as they were; remember leaves cache_hits;  *)
(* get_cached_result leaves total_queries, patterns_learned and            *)
(* avg_response_time.                                                      *)
C10_StatsFrame ==
    [][/\ last'.op \in {"suggest_method", "cache_result", "get_insights",
                        "cleanup_volatile"} => stats' = stats
       /\ last'.op = "remember_query" => stats'.cache_hits = stats.cache_hits
       /\ last'.op = "get_cached_result" =>
             /\ stats'.total_queries = stats.total_queries
             /\ stats'.patterns_learned = stats.patterns_learned
             /\ stats'.avg_response_time = stats.avg_response_time]_vars

(* A cache hit counted while one query is on record *)
C10_Witness ==
    /\ last.op = "get_cached_result"
    /\ last.ret # None
    /\ stats.cache_hits = 1
    /\ stats.total_queries = 1

(* C11 - misses are values (FailSpec): get_cached_result on a query with   *)
(* no entry younger than 3600 s in the in-memory map, and whose durable    *)
(* document is absent or is a parsable entry of 3600 s or more, returns    *)
(* None; suggest_method never raises, and returns None when the log holds  *)
(* no successful record of the query's type.                               *)
C11_MissesAreValues ==
    /\ last.op = "suggest_method" =>
          /\ last.ret.type # "error"
          /\ SuccessesOfType(_classify_query(last.query)) = {} => last.ret = None
    /\ last.op = "get_cached_result" =>
          LET h == md5(last.query) IN
          (/\ h \in DOMAIN cache => Age(cache[h]) >= 3600
           /\ h \in DOMAIN disk_cache =>
                 /\ is_parsable_entry(disk_cache[h])
                 /\ Age(disk_cache[h]) >= 3600)
          => last.ret = None

(* A miss on a query whose two entries, both parsable, are 3600 s old. *)
C11_Witness ==
    /\ last.op = "get_cached_result"
    /\ md5(last.query) \in DOMAIN cache
    /\ md5(last.query) \in DOMAIN disk_cache
    /\ is_parsable_entry(disk_cache[md5(last.query)])
    /\ Age(cache[md5(last.query)]) = 3600
    /\ last.ret = None

(* C11 as stated: get_cached_result on a query that is in neither store,   *)
(* or whose in-memory entry is 3600 s old or more, returns None.           *)
C11_Original ==
    last.op = "get_cached_result" =>
        LET h == md5(last.query) IN
        (\/ h \notin DOMAIN cache /\ h \notin DOMAIN disk_cache
         \/ h \in DOMAIN cache /\ Age(cache[h]) >= 3600)
        => last.ret = None

(* C12 - persistence failures propagate (FailSpec): a remember_query or a  *)
(* cache_result whose write fails ends in an error and leaves the document *)
(* as it was or truncated, never holding the new data; after a failed      *)
(* write of the pattern log the statistics are not written; a constructor, *)
(* a get_cached_result that reaches the file, and a cleanup_volatile end   *)
(* in an error when the document they load is unparsable.                  *)
C12_FailuresPropagate ==
    [][/\ (last'.op = "remember_query" /\ last'.fault # NoFault) =>
             /\ last'.ret.type = "error"
             /\ last'.fault.doc = "patterns" =>
                   /\ disk_patterns' \in {disk_patterns, Truncated}
                   /\ disk_stats' = disk_stats
             /\ last'.fault.doc = "stats" =>
                   disk_stats' \in {disk_stats, Truncated}
       /\ (last'.op = "cache_result" /\ last'.fault # NoFault) =>
             /\ last'.ret.type = "error"
             /\ \/ disk_cache' = disk_cache
                \/ disk_cache'[md5(last'.query)] = TruncatedEntry
       /\ (/\ last'.op = "__init__"
           /\ load_raises(disk_patterns) \/ load_raises(disk_stats)) =>
             last'.ret.type = "error"
       /\ (/\ last'.op = "get_cached_result"
           /\ md5(last'.query) \in DOMAIN cache =>
                 Age(cache[md5(last'.query)]) >= 3600
           /\ md5(last'.query) \in DOMAIN disk_cache
           /\ ~is_parsable_entry(disk_cache[md5(last'.query)])) =>
             last'.ret.type = "error"
       /\ (/\ last'.op = "cleanup_volatile"
           /\ \E h \in DOMAIN disk_cache : ~is_parsable_entry(disk_cache[h])) =>
             last'.ret.type = "error"
      ]_vars

(* The fifth remember_query wrote the pattern log and failed in the write  *)
(* of the statistics.                                                      *)
C12_Witness ==
    /\ last.op = "remember_query"
    /\ last.fault = [doc |-> "stats", at |-> "write"]
    /\ last.ret = Error("OSError")
    /\ disk_patterns = File(patterns)
    /\ disk_stats = Truncated

(* The keyword groups in the order the claim gives them *)
C13_Groups ==
    <<[words |-> ComprehensiveWords, type |-> "comprehensive_analysis"],
      [words |-> TechnicalWords, type |-> "technical_implementation"],
      [words |-> ConceptualWords, type |-> "conceptual_explanation"],
      [words |-> RecommendWords, type |-> "recommendation"]>>

(* C13 - classification priority (ClassifySpec): _classify_query returns   *)
(* the type of the first group, in the order comprehensive, technical,     *)
(* conceptual, recommendation, that has a keyword inside the lower-cased   *)
(* query, and general_research exactly when no group has one.              *)
C13_ClassifyPriority ==
    last.op = "_classify_query" =>
        LET matching == {i \in 1..4 : \E w \in C13_Groups[i].words :
                            contains(lower(last.query), w)}
        IN  /\ matching # {} =>
                  \E i \in matching :
                      /\ \A j \in matching : i <= j
                      /\ last.ret = Str(C13_Groups[i].type)
            /\ last.ret = Str("general_research") <=> matching = {}

(* "besthow to" holds a recommendation keyword and then a technical one,   *)
(* and is classified technical.                                            *)
C13_Witness ==
    /\ last.op = "_classify_query"
    /\ last.query = <<"b","e","s","t","h","o","w"," ","t","o">>
    /\ last.ret = Str("technical_implementation")

(* C14 - periodic flush (PersistSpec): a remember_query that makes the     *)
(* length of the log a multiple of 5 leaves the durable log equal to the   *)
(* in-memory log and the durable statistics equal to the in-memory         *)
(* statistics; any other remember_query changes neither document.          *)
C14_PeriodicFlush ==
    [][last'.op = "remember_query" =>
          IF Len(patterns') % 5 = 0
          THEN /\ disk_patterns' = [exists |-> TRUE, data |-> patterns']
               /\ disk_stats' = [exists |-> TRUE, data |-> stats']
          ELSE /\ disk_patterns' = disk_patterns
               /\ disk_stats' = disk_stats
      ]_vars

(* The tenth record has been written, with a cache hit in the statistics,  *)
(* over the documents of the fifth.                                        *)
C14_Witness ==
    /\ last.op = "remember_query"
    /\ Len(patterns) = 10
    /\ stats.cache_hits = 1
    /\ disk_patterns = [exists |-> TRUE, data |-> patterns]
    /\ disk_stats = [exists |-> TRUE, data |-> stats]

(* C15 - learner rule per call (LearnSpec): a remember_query with          *)
(* success=true adds exactly 1 to patterns_learned when the log, the new   *)
(* record included, holds 3 or more successful records of its query type   *)
(* and method, and adds 0 when it holds fewer; a remember_query with       *)
(* success=false leaves patterns_learned as it was.                        *)
C15_LearnerRule ==
    [][last'.op = "remember_query" =>
          LET new == patterns'[Len(patterns')]
              sharing == {i \in 1..Len(patterns') :
                            /\ patterns'[i].query_type = new.query_type
                            /\ patterns'[i].method = new.method
                            /\ patterns'[i].success}
          IN  stats'.patterns_learned =
                  stats.patterns_learned
                  + (IF last'.success /\ Cardinality(sharing) >= 3 THEN 1 ELSE 0)
      ]_vars

(* The fifth successful record of one type and method: the third, the      *)
(* fourth and the fifth call each added 1.                                 *)
C15_Witness ==
    /\ last.op = "remember_query"
    /\ last.success
    /\ Cardinality(SuccessesOfTypeMethod(patterns[Len(patterns)].query_type,
                                         last.method)) = 5
    /\ stats.patterns_learned = 3

(* C16 - in-memory hit (CacheSpec): a get_cached_result(q) that finds q's  *)
(* entry in the in-memory map younger than 3600 s returns the entry's      *)
(* result, adds exactly 1 to the entry's hits and to cache_hits, and       *)
(* changes nothing else of that entry, no other in-memory entry and no     *)
(* durable entry.                                                          *)
C16_MemoryHit ==
    [][(/\ last'.op = "get_cached_result"
        /\ md5(last'.query) \in DOMAIN cache
        /\ Age(cache[md5(last'.query)]) < 3600) =>
          LET h == md5(last'.query) IN
          /\ last'.ret = cache[h].result
          /\ DOMAIN cache' = DOMAIN cache
          /\ cache'[h].hits = cache[h].hits + 1
          /\ cache'[h].result = cache[h].result
          /\ cache'[h].timestamp = cache[h].timestamp
          /\ cache'[h].query = cache[h].query
          /\ \A k \in DOMAIN cache \ {h} : cache'[k] = cache[k]
          /\ stats' = [stats EXCEPT !.cache_hits = stats.cache_hits + 1]
          /\ disk_cache' = disk_cache
      ]_vars

(* The second hit on one query while the other query's entry, and the      *)
(* durable copy, still count no hit.                                       *)
C16_Witness ==
    /\ last.op = "get_cached_result"
    /\ last.path = "memory"
    /\ cache[md5(last.query)].hits = 2
    /\ stats.cache_hits = 2
    /\ md5(last.query) \in DOMAIN disk_cache
    /\ disk_cache[md5(last.query)].hits = 0
    /\ \E k \in DOMAIN cache : k # md5(last.query) /\ cache[k].hits = 0

(* C17 - hydration (CacheSpec): a get_cached_result(q) that finds no entry *)
(* of q in the in-memory map and a durable entry younger than 3600 s       *)
(* returns that entry's result, puts the entry itself in the in-memory     *)
(* map, adds exactly 1 to cache_hits, and leaves the durable store, the    *)
(* entry's hits included, as it was.                                       *)
C17_Hydration ==
    [][(/\ last'.op = "get_cached_result"
        /\ md5(last'.query) \notin DOMAIN cache
        /\ md5(last'.query) \in DOMAIN disk_cache
        /\ Age(disk_cache[md5(last'.query)]) < 3600) =>
          LET h == md5(last'.query) IN
          /\ last'.ret = disk_cache[h].result
          /\ DOMAIN cache' = DOMAIN cache \cup {h}
          /\ cache'[h] = disk_cache[h]
          /\ \A k \in DOMAIN cache : cache'[k] = cache[k]
          /\ stats' = [stats EXCEPT !.cache_hits = stats.cache_hits + 1]
          /\ disk_cache' = disk_cache
      ]_vars

(* An instance that never cached the query returns, 3599 s later, the list *)
(* an earlier instance stored as a tuple; the durable entry counts no hit. *)
C17_Witness ==
    /\ last.op = "get_cached_result"
    /\ last.path = "disk"
    /\ last.query \notin DOMAIN put
    /\ last.ret.type = "list"
    /\ cache[md5(last.query)] = disk_cache[md5(last.query)]
    /\ Age(disk_cache[md5(last.query)]) = 3599
    /\ disk_cache[md5(last.query)].hits = 0
    /\ stats.cache_hits = 1

(* C18 - lazy expiry (CacheSpec): get_cached_result(q) returns None when   *)
(* neither store holds an entry of q younger than 3600 s, and a call that  *)
(* returns None leaves the in-memory map, the durable store and the        *)
(* statistics as they were.                                                *)
C18_LazyExpiry ==
    [][last'.op = "get_cached_result" =>
          LET h == md5(last'.query) IN
          /\ (/\ h \in DOMAIN cache => Age(cache[h]) >= 3600
              /\ h \in DOMAIN disk_cache => Age(disk_cache[h]) >= 3600)
             => last'.ret = None
          /\ last'.ret = None =>
                /\ cache' = cache
                /\ disk_cache' = disk_cache
                /\ stats' = stats
      ]_vars

(* A miss on an entry 3601 s old that both stores still hold afterwards. *)
C18_Witness ==
    /\ last.op = "get_cached_result"
    /\ last.ret = None
    /\ md5(last.query) \in DOMAIN cache
    /\ md5(last.query) \in DOMAIN disk_cache
    /\ Age(cache[md5(last.query)]) = 3601
    /\ Age(disk_cache[md5(last.query)]) = 3601

(* C19 - cleanup frame (Spec): cleanup_volatile leaves the in-memory map,  *)
(* the in-memory and the durable pattern log and the in-memory and the     *)
(* durable statistics as they were, for every max_age_hours.               *)
C19_CleanupFrame ==
    [][last'.op = "cleanup_volatile" =>
          /\ cache' = cache
          /\ patterns' = patterns
          /\ stats' = stats
          /\ disk_patterns' = disk_patterns
          /\ disk_stats' = disk_stats
      ]_vars

(* A sweep that removed the one durable entry, with its in-memory copy and *)
(* a record in the log still there.                                        *)
C19_Witness ==
    /\ last.op = "cleanup_volatile"
    /\ last.ret = PyInt(1)
    /\ disk_cache = EmptyMap
    /\ cache # EmptyMap
    /\ patterns # << >>

(* C20 - divergence after cleanup (CacheSpec): when the durable entry of q *)
(* is gone and the in-memory entry is younger than 3600 s,                 *)
(* get_cached_result(q) returns the entry's result; on a newly constructed *)
(* instance, or one with no in-memory entry of q, it returns None.         *)
C20_Divergence ==
    [][last'.op = "get_cached_result" =>
          LET h == md5(last'.query) IN
          /\ (/\ h \notin DOMAIN disk_cache
              /\ h \in DOMAIN cache
              /\ Age(cache[h]) < 3600)
             => last'.ret = cache[h].result
          /\ (/\ h \notin DOMAIN disk_cache
              /\ last.op = "__init__" \/ h \notin DOMAIN cache)
             => last'.ret = None
      ]_vars

(* A sweep removed the durable entry of one query and left the other's;    *)
(* the instance that cached the query still returns its result.            *)
C20_Witness ==
    /\ last.op = "get_cached_result"
    /\ last.query \in DOMAIN put
    /\ md5(last.query) \notin DOMAIN disk_cache
    /\ disk_cache # EmptyMap
    /\ last.ret = put[last.query].result
    /\ last.ret.type = "dict"

C22_Relevant(query) ==
    SelectSeq(patterns, LAMBDA p :
        p.success /\ p.query_type = _classify_query(query))

(* C22 - suggestion inputs (SuggestSpec): suggest_method(q) returns None   *)
(* when the log holds no successful record of the type of q, and returns   *)
(* what it would return on the log reduced to the successful records of    *)
(* that type; a remember_query with success=false, or of a query of        *)
(* another type, leaves the value of suggest_method(q) as it was, for      *)
(* every q.                                                                *)
C22_SuggestionInputs ==
    [][/\ last'.op = "suggest_method" =>
             /\ C22_Relevant(last'.query) = << >> => last'.ret = None
             /\ last'.ret = suggest_method(C22_Relevant(last'.query), last'.query)
       /\ last'.op = "remember_query" =>
             \A q \in Queries :
                 (\/ ~last'.success
                  \/ _classify_query(q) # _classify_query(last'.query))
                 => suggest_method(patterns', q) = suggest_method(patterns, q)
      ]_vars

(* A failed record of the suggested type was added to a log of three, and  *)
(* the suggestion for that type stands.                                    *)
C22_Witness ==
    /\ last.op = "remember_query"
    /\ ~last.success
    /\ Len(patterns) = 4
    /\ suggest_method(patterns, last.query) = Str("deep_research_api")

(* The sum of the values of a function with a finite domain *)
RECURSIVE C23_SumOver(_, _)
C23_SumOver(f, S) ==
    IF S = {} THEN 0
    ELSE LET x == CHOOSE y \in S : TRUE IN f[x] + C23_SumOver(f, S \ {x})

(* The successful records of one (query_type, method) pair *)
C23_Successes(c) ==
    {i \in 1..Len(patterns) :
        /\ patterns[i].success
        /\ patterns[i].query_type = c[1]
        /\ patterns[i].method = c[2]}

C23_Pairs == {c \in QueryTypes \X Methods : C23_Successes(c) # {}}

(* C23 - insight distributions (InsightSpec): in a report of a non-empty   *)
(* log the query_types counts sum to the length of the log,                *)
(* method_preferences[m] is the number of successful records of method m   *)
(* and has no key for a method without one, and best_combinations lists    *)
(* min(3, number of pairs) distinct pairs with their success counts, none  *)
(* lower than the count of a pair left out.                                *)
C23_InsightDistributions ==
    (last.op = "get_insights" /\ patterns # << >>) =>
        LET r == last.ret
            listed == {r.best_combinations[k].combo :
                          k \in 1..Len(r.best_combinations)}
        IN  /\ C23_SumOver(r.query_types, DOMAIN r.query_types) = Len(patterns)
            /\ DOMAIN r.method_preferences =
                  {m \in Methods : \E i \in 1..Len(patterns) :
                        patterns[i].success /\ patterns[i].method = m}
            /\ \A m \in DOMAIN r.method_preferences :
                  r.method_preferences[m] =
                      Cardinality({i \in 1..Len(patterns) :
                          patterns[i].success /\ patterns[i].method = m})
            /\ Len(r.best_combinations) <= 3
            /\ Cardinality(listed) = Len(r.best_combinations)
            /\ Cardinality(C23_Pairs) <= 3 => listed = C23_Pairs
            /\ listed \subseteq C23_Pairs
            /\ \A k \in 1..Len(r.best_combinations) :
                  /\ r.best_combinations[k].count =
                        Cardinality(C23_Successes(r.best_combinations[k].combo))
                  /\ \A c \in C23_Pairs \ listed :
                        Cardinality(C23_Successes(c))
                            <= r.best_combinations[k].count

(* Four pairs, the last one seen twice: it is listed and one of the pairs  *)
(* seen once is left out.                                                  *)
C23_Witness ==
    /\ last.op = "get_insights"
    /\ Len(patterns) = 5
    /\ Cardinality(C23_Pairs) = 4
    /\ Len(last.ret.best_combinations) = 3
    /\ last.ret.best_combinations[1].count = 2
    /\ last.ret.best_combinations[1].combo =
          <<patterns[5].query_type, patterns[5].method>>

(* C24 - insight report (Spec): get_insights changes no state; on a        *)
(* non-empty log its report gives total_patterns = the length of the log,  *)
(* patterns_learned = the counter, and cache_hit_rate = the percentage     *)
(* 100 * cache_hits / max(1, total_queries) rounded to one decimal; on an  *)
(* empty log the report is the message alone and has none of these.        *)
C24_InsightReport ==
    [][last'.op = "get_insights" =>
          /\ UNCHANGED <<patterns, stats, cache, disk_patterns, disk_stats,
                         disk_cache, now, put>>
          /\ IF patterns = << >>
             THEN DOMAIN last'.ret = {"type", "message"}
             ELSE LET r == last'.ret
                      d == IF stats.total_queries >= 1
                           THEN stats.total_queries ELSE 1
                      diff == r.cache_hit_rate * d - 1000 * stats.cache_hits
                  IN  /\ r.total_patterns = Len(patterns)
                      /\ r.patterns_learned = stats.patterns_learned
                      /\ 2 * diff <= d
                      /\ 2 * diff >= 0 - d
      ]_vars

(* A report of 50.0% after one hit and two records. *)
C24_Witness ==
    /\ last.op = "get_insights"
    /\ Len(patterns) = 2
    /\ last.ret.total_patterns = 2
    /\ stats.cache_hits = 1
    /\ last.ret.cache_hit_rate = 500

(* C24 as stated: in every state, the empty log included, the report       *)
(* gives total_patterns = the length of the log and patterns_learned =     *)
(* the counter.                                                            *)
C24_Original ==
    last.op = "get_insights" =>
        /\ "total_patterns" \in DOMAIN last.ret
        /\ last.ret.total_patterns = Len(patterns)
        /\ last.ret.patterns_learned = stats.patterns_learned

(* C25 - restart (PersistSpec): a constructor leaves the pattern log and   *)
(* the statistics equal to the contents of the durable documents, an empty *)
(* log and all-zero statistics where a document does not exist, the        *)
(* in-memory map empty, and the three durable stores as they were.         *)
C25_Restart ==
    [][last'.op = "__init__" =>
          /\ patterns' = IF disk_patterns.exists THEN disk_patterns.data
                         ELSE << >>
          /\ stats' = IF disk_stats.exists THEN disk_stats.data
                      ELSE [total_queries |-> 0, cache_hits |-> 0,
                            patterns_learned |-> 0,
                            avg_response_time |-> [num |-> 0, den |-> 1]]
          /\ cache' = EmptyMap
          /\ disk_patterns' = disk_patterns
          /\ disk_stats' = disk_stats
          /\ disk_cache' = disk_cache
      ]_vars

(* An instance constructed over a log of five records, statistics with a   *)
(* cache hit, and a cache file.                                            *)
C25_Witness ==
    /\ last.op = "__init__"
    /\ Len(patterns) = 5
    /\ stats.total_queries = 5
    /\ stats.cache_hits = 1
    /\ cache = EmptyMap
    /\ disk_cache # EmptyMap

(* C29 - count consistency (PersistSpec): in every state total_queries is  *)
(* the length of the in-memory log, and the total_queries of the durable   *)
(* statistics is the length of the durable log, both 0 where the document  *)
(* does not exist.                                                         *)
C29_CountConsistency ==
    /\ stats.total_queries = Len(patterns)
    /\ disk_patterns.exists <=> disk_stats.exists
    /\ disk_patterns.exists =>
          disk_stats.data.total_queries = Len(disk_patterns.data)

(* A log of seven over documents of five that count one cache hit. *)
C29_Witness ==
    /\ Len(patterns) = 7
    /\ stats.total_queries = 7
    /\ stats.cache_hits = 1
    /\ disk_patterns.exists
    /\ disk_stats.data.total_queries = 5
    /\ disk_stats.data.cache_hits = 1
    /\ last.op = "remember_query"

(* C30 - bounded durability lag (PersistSpec): in every state the durable  *)
(* log, empty where the document does not exist, is a prefix of the        *)
(* in-memory log and at most 4 records shorter.                            *)
C30_DurabilityLag ==
    LET durable == IF disk_patterns.exists THEN disk_patterns.data ELSE << >>
    IN  /\ Len(durable) <= Len(patterns)
        /\ \A i \in 1..Len(durable) : durable[i] = patterns[i]
        /\ Len(patterns) - Len(durable) <= 4

(* Nine records in memory, five of them durable. *)
C30_Witness ==
    /\ Len(patterns) = 9
    /\ disk_patterns.exists
    /\ Len(disk_patterns.data) = 5
    /\ last.op = "remember_query"
    /\ ~last.success

(* The log with the records at places i and j exchanged *)
C28_Swap(i, j) ==
    [k \in 1..Len(patterns) |->
        IF k = i THEN patterns[j] ELSE IF k = j THEN patterns[i] ELSE patterns[k]]

(* C28 - the tie-break never matters (SuggestSpec): when suggest_method(q) *)
(* returns m, more than half of the successful records of the type of q    *)
(* have method m; the value returned is the one suggest_method returns on  *)
(* the log with any two records exchanged; and when two methods share the  *)
(* highest count it returns None.  Every ordering of the same records is a *)
(* log of SuggestSpec and is reached from any other by exchanges.          *)
C28_TieBreak ==
    last.op = "suggest_method" =>
        LET T == _classify_query(last.query)
            count(m) == Cardinality(SuccessesOfTypeMethod(T, m))
        IN  /\ \A m \in Methods :
                  last.ret = Str(m) => 2 * count(m) > Cardinality(SuccessesOfType(T))
            /\ \A i, j \in 1..Len(patterns) :
                  i < j => suggest_method(C28_Swap(i, j), last.query) = last.ret
            /\ (\E m1, m2 \in Methods :
                  /\ m1 # m2
                  /\ count(m1) = count(m2)
                  /\ count(m1) > 0
                  /\ \A m \in Methods : count(m) <= count(m1))
               => last.ret = None

(* Two successful records of each method for one type: no suggestion. *)
C28_Witness ==
    /\ last.op = "suggest_method"
    /\ last.ret = None
    /\ Len(patterns) = 4
    /\ \A m \in Methods :
          Cardinality(SuccessesOfTypeMethod(_classify_query(last.query), m)) = 2

----------------------------------------------------------------------------
(* C26: DeepThinkWithMemory.research looks the query up first.  On a hit   *)
(* the cached result is returned and nothing else is called: the log, the  *)
(* statistics of the log and the files are as the lookup left them.  On a  *)
(* miss the research method is awaited once, remember_query is called      *)
(* once, after it, and cache_result is called only when the research       *)
(* method returned, once, right after remember_query.                      *)

C26_Count(calls, name) == Cardinality({i \in DOMAIN calls : calls[i] = name})

(* every call of research in progress or returned has this shape *)
C26_Shape(r) ==
    /\ r.calls # << >> =>
          /\ r.calls[1] = "get_cached_result"
          /\ C26_Count(r.calls, "get_cached_result") = 1
    /\ C26_Count(r.calls, "super.research") <= 1
    /\ C26_Count(r.calls, "remember_query") <= 1
    /\ C26_Count(r.calls, "cache_result") <= 1
    /\ \A i \in DOMAIN r.calls :
          /\ r.calls[i] = "remember_query" =>
                \E j \in 1..(i - 1) : r.calls[j] = "super.research"
          /\ r.calls[i] = "cache_result" =>
                /\ i > 1
                /\ r.calls[i - 1] = "remember_query"
                /\ r.success
    /\ (r.pc = "idle" /\ Len(r.calls) > 1) =>
          /\ C26_Count(r.calls, "super.research") = 1
          /\ C26_Count(r.calls, "remember_query") = 1
          /\ C26_Count(r.calls, "cache_result") = IF r.success THEN 1 ELSE 0
          /\ r.calls[Len(r.calls)] =
                IF r.success THEN "cache_result" ELSE "remember_query"

C26_RouterOps ==
    {"get_cached_result", "suggest_method", "super.research",
     "remember_query", "cache_result"}

C26_Step ==
    \* router.calls is the list of the calls that acted
    /\ last'.op \in C26_RouterOps =>
          router'.calls = IF router.pc = "idle" THEN <<last'.op>>
                          ELSE Append(router.calls, last'.op)
    /\ patterns' # patterns => last'.op \in {"remember_query", "__init__"}
    /\ put' # put => last'.op \in {"cache_result", "__init__"}
    /\ C26_Shape(router')
    \* a hit returns what the cache holds and ends the call
    /\ (last'.op = "get_cached_result" /\ last'.path # "miss") =>
          /\ router'.pc = "idle"
          /\ router'.ret = last'.ret
          /\ router'.calls = <<"get_cached_result">>
          /\ UNCHANGED <<patterns, disk_patterns, disk_stats, disk_cache, put>>
    \* a miss goes on to the research method
    /\ (last'.op = "get_cached_result" /\ last'.path = "miss") =>
          router'.pc \in {"suggest", "context"}

C26_TransactionOrder == [][C26_Step]_vars

(* a call of research has just returned the result that an earlier call   *)
(* of this instance got from the research method, remembered and cached   *)
C26_Witness ==
    /\ router.pc = "idle"
    /\ last.op = "get_cached_result"
    /\ last.path # "miss"
    /\ router.ret = last.ret
    /\ router.calls = <<"get_cached_result">>
    /\ router.query \in DOMAIN put
    /\ \E i \in DOMAIN patterns :
          patterns[i].success /\ patterns[i].query = router.query

----------------------------------------------------------------------------
(* C27: when the research method raises, research goes on: it calls        *)
(* remember_query once, with success false, returns the placeholder        *)
(* result and does not call cache_result.  In the state it returns in, a   *)
(* lookup of the query finds nothing in either store, the call that        *)
(* follows gets None when it is that lookup, and suggest_method gives for  *)
(* every query what it gives on the log without the new record.            *)

(* what get_cached_result(query) would return in this state *)
C27_Lookup(query) ==
    LET query_hash == md5(query) IN
    IF query_hash \in DOMAIN cache /\ is_fresh(cache[query_hash], now)
    THEN cache[query_hash].result
    ELSE IF query_hash \in DOMAIN disk_cache
            /\ is_fresh(disk_cache[query_hash], now)
    THEN disk_cache[query_hash].result
    ELSE cache_miss

C27_Failed(r) == r.result # None /\ r.result.method_used = "failed"

C27_Step ==
    \* the exception is caught
    /\ (last'.op = "super.research" /\ last'.ret.type = "error") =>
          /\ router'.pc = "remember"
          /\ ~router'.success
          /\ C27_Failed(router')
          /\ router'.result.metadata.error # None
    \* one record, of a failure
    /\ (router.pc = "remember" /\ C27_Failed(router)) =>
          /\ last'.op = "remember_query"
          /\ ~last'.success
          /\ Len(patterns') = Len(patterns) + 1
          /\ SubSeq(patterns', 1, Len(patterns)) = patterns
          /\ patterns'[Len(patterns')].query = router.query
          /\ ~patterns'[Len(patterns')].success
          /\ router'.pc = "return"
    \* the placeholder is returned, and nothing was cached
    /\ (router.pc = "return" /\ C27_Failed(router)) =>
          /\ last'.op = "research"
          /\ last'.ret.type = "UnifiedResearchResult"
          /\ last'.ret.method_used = "failed"
          /\ router'.ret = last'.ret
          /\ router'.pc = "idle"
          /\ C26_Count(router'.calls, "remember_query") = 1
          /\ C26_Count(router'.calls, "cache_result") = 0
          /\ Len(patterns') = router.start_len + 1
          /\ UNCHANGED <<cache, disk_cache, put>>
          /\ C27_Lookup(router.query)' = None
          /\ \A query \in RouterQueries :
                suggest_method(patterns', query) =
                    suggest_method(SubSeq(patterns', 1, Len(patterns') - 1), query)
    \* the next call, when it is the lookup of the same query
    /\ (/\ router.pc = "idle"
        /\ last.op = "research"
        /\ C27_Failed(router)
        /\ last'.op = "get_cached_result"
        /\ last'.query = router.query) =>
          /\ last'.path = "miss"
          /\ last'.ret = None

C27_FailureRecorded == [][C27_Step]_vars

(* research has just returned the placeholder for a query whose type has a *)
(* suggestion, learned from an earlier research that returned              *)
C27_Witness ==
    /\ router.pc = "idle"
    /\ last.op = "research"
    /\ C27_Failed(router)
    /\ router.ret = router.result
    /\ ~patterns[Len(patterns)].success
    /\ suggest_method(patterns, router.query) # None
    /\ C27_Lookup(router.query) = None

----------------------------------------------------------------------------
(* C31: every cache file holds hits = 0, since cache_result alone writes   *)
(* cache files and writes 0; so the entry that a lookup has just loaded    *)
(* from its file has hits = 0 in memory, in an instance that never cached  *)
(* the query as in any other.                                              *)
C31_DurableHitsZero ==
    /\ \A query_hash \in DOMAIN disk_cache :
          disk_cache[query_hash].hits = 0
    /\ (last.op = "get_cached_result" /\ last.path = "disk") =>
          /\ md5(last.query) \in DOMAIN cache
          /\ cache[md5(last.query)].hits = 0

(* an instance that never cached the query loaded the entry from the file *)
(* an earlier instance wrote, and has since counted a hit on it in        *)
(* memory; the file still holds 0                                         *)
C31_Witness ==
    /\ last.op = "get_cached_result"
    /\ last.path = "memory"
    /\ cache[md5(last.query)].hits >= 1
    /\ md5(last.query) \in DOMAIN disk_cache
    /\ disk_cache[md5(last.query)].hits = 0
    /\ last.query \notin DOMAIN put

----------------------------------------------------------------------------
(* C32: when the memory is driven by research alone, cache_hits is at most *)
(* total_queries in every state, so the cache_hit_rate that get_insights   *)
(* reports, in tenths of a percent, is between 0 and 1000.                 *)
C32_HitRateIsFraction ==
    /\ stats.cache_hits <= stats.total_queries
    /\ patterns # << >> =>
          /\ get_insights(patterns, stats).cache_hit_rate >= 0
          /\ get_insights(patterns, stats).cache_hit_rate <= 1000

----------------------------------------------------------------------------
(* C33: with two instances over the same directories whose remember_query  *)
(* calls take turns, every record that patterns.json holds is still in it  *)
(* after every step: no flush of either instance removes a flushed record. *)
C33_Flushed(file) ==
    IF file.exists THEN {file.data[i] : i \in DOMAIN file.data} ELSE {}

C33_DurableLogKept ==
    [][C33_Flushed(disk_patterns) \subseteq C33_Flushed(disk_patterns')]_vars

====
